---- MODULE Spec2Model ----
(***************************************************************************)
(* SpecForge (src/specforge.py): raw document -> SpecificationProcessor    *)
(* -> Specification -> OutputFormatter.format_text -> report.              *)
(*                                                                         *)
(* Python values of the raw document are tagged records [t, v]:            *)
(*   None, str, int, list (a sequence of values) and dict (a sequence of   *)
(*   <<key, value>> pairs in insertion order, keys distinct).              *)
(* A Python call either returns or raises; an evaluation is a record       *)
(*   [ok, val, exc] and the first raise in evaluation order wins.          *)
(* Dataclass instances are records with the dataclass's field names; a     *)
(* list or dict the code builds itself is a sequence (of entities, or of   *)
(* <<name, entity>> pairs in insertion order).                             *)
(* A Cache is its dict (cache: key -> value, or Absent) and its            *)
(* threading.Lock (lock: held or not); each thread using it is at a        *)
(* position pc[t] of the Cache method it called.                           *)
(***************************************************************************)
EXTENDS Integers, Sequences, FiniteSets, TLC

VARIABLES data, op, outcome, spec, lines, exc,
          cache, lock, pc, call, ret, inside, completed, first, calls

\* the SpecForge call in hand and its result
forgeVars == <<data, op, outcome, spec, lines, exc>>
\* the Cache of the SpecForge built with cache_enabled=True, and the threads using it
cacheVars == <<cache, lock, pc, call, ret, inside, completed>>
\* the process_spec calls made so far and the outcome of the first
callVars == <<first, calls>>

vars == <<data, op, outcome, spec, lines, exc,
          cache, lock, pc, call, ret, inside, completed, first, calls>>

(***************************************************************************)
(* Python values                                                           *)
(***************************************************************************)
PyNone == [t |-> "none", v |-> <<>>]
PyStr(s) == [t |-> "str", v |-> s]
PyInt(n) == [t |-> "int", v |-> n]
PyList(xs) == [t |-> "list", v |-> xs]
PyDict(kvs) == [t |-> "dict", v |-> kvs]

EmptyStr == PyStr("")
EmptyList == PyList(<<>>)
EmptyDict == PyDict(<<>>)

\* type(x).__name__
TypeName(x) ==
    CASE x.t = "none" -> "NoneType"
      [] x.t = "str" -> "str"
      [] x.t = "int" -> "int"
      [] x.t = "list" -> "list"
      [] x.t = "dict" -> "dict"

\* The characters of the strings the documents of this model use (iterating a
\* str yields its characters); every other string of the model has one character.
Chars(s) ==
    CASE s = "" -> <<>>
      [] s = "io" -> <<"i", "o">>
      [] s = "TBD" -> <<"T", "B", "D">>
      [] OTHER -> <<s>>

NoExc == [type |-> "", msg |-> ""]
Ok(x) == [ok |-> TRUE, val |-> x, exc |-> NoExc]
Raise(type, msg) == [ok |-> FALSE, val |-> PyNone, exc |-> [type |-> type, msg |-> msg]]

\* The first evaluation of rs (a sequence, in evaluation order) that raised.
Raised(rs) == \E i \in 1..Len(rs) : ~rs[i].ok
FirstRaise(rs) == rs[CHOOSE i \in 1..Len(rs) : ~rs[i].ok /\ \A j \in 1..(i - 1) : rs[j].ok]
Vals(rs) == [i \in 1..Len(rs) |-> rs[i].val]

HasKey(d, k) == \E i \in 1..Len(d.v) : d.v[i][1] = k
Lookup(d, k) == d.v[CHOOSE i \in 1..Len(d.v) : d.v[i][1] = k][2]

\* repr(k) of a str key, as str(KeyError(k)) prints it
Quote(s) == "'" \o s \o "'"

\* x.get(k, default)
Get(x, k, default) ==
    IF x.t = "dict"
    THEN Ok(IF HasKey(x, k) THEN Lookup(x, k) ELSE default)
    ELSE Raise("AttributeError", Quote(TypeName(x)) \o " object has no attribute 'get'")

\* x[k] for a str k
Subscript(x, k) ==
    CASE x.t = "dict" -> IF HasKey(x, k) THEN Ok(Lookup(x, k)) ELSE Raise("KeyError", Quote(k))
      [] x.t = "str" -> Raise("TypeError", "string indices must be integers, not 'str'")
      [] x.t = "list" -> Raise("TypeError", "list indices must be integers or slices, not str")
      [] OTHER -> Raise("TypeError", Quote(TypeName(x)) \o " object is not subscriptable")

\* iter(x): the sequence of values a for loop over x visits
Iter(x) ==
    CASE x.t = "list" -> Ok(x.v)
      [] x.t = "dict" -> Ok([i \in 1..Len(x.v) |-> PyStr(x.v[i][1])])
      [] x.t = "str" -> Ok([i \in 1..Len(Chars(x.v)) |-> PyStr(Chars(x.v)[i])])
      [] OTHER -> Raise("TypeError", Quote(TypeName(x)) \o " object is not iterable")

\* x.items()
Items(x) ==
    IF x.t = "dict"
    THEN Ok(x.v)
    ELSE Raise("AttributeError", Quote(TypeName(x)) \o " object has no attribute 'items'")

\* bool(x)
Truthy(x) ==
    CASE x.t = "none" -> FALSE
      [] x.t = "int" -> x.v # 0
      [] x.t = "str" -> x.v # ""
      [] OTHER -> Len(x.v) > 0

\* str(x), as an f-string formats x; repr(x) inside containers
RECURSIVE Repr(_), JoinReprs(_, _), JoinItems(_, _)
Repr(x) ==
    CASE x.t = "none" -> "None"
      [] x.t = "int" -> ToString(x.v)
      [] x.t = "str" -> Quote(x.v)
      [] x.t = "list" -> "[" \o JoinReprs(x.v, 1) \o "]"
      [] x.t = "dict" -> "{" \o JoinItems(x.v, 1) \o "}"
JoinReprs(xs, i) ==
    IF i > Len(xs) THEN ""
    ELSE Repr(xs[i]) \o (IF i < Len(xs) THEN ", " ELSE "") \o JoinReprs(xs, i + 1)
JoinItems(kvs, i) ==
    IF i > Len(kvs) THEN ""
    ELSE Quote(kvs[i][1]) \o ": " \o Repr(kvs[i][2])
         \o (IF i < Len(kvs) THEN ", " ELSE "") \o JoinItems(kvs, i + 1)
Format(x) == IF x.t = "str" THEN x.v ELSE Repr(x)

\* F of the value of e, with e evaluated once
Let(e, F(_)) == CHOOSE y \in {F(x) : x \in {e}} : TRUE

\* r, then F on its value: the raise of r propagates
Then(r, F(_)) == Let(r, LAMBDA x : IF x.ok THEN F(x.val) ELSE x)

\* the values of the evaluations rs, made in order, or the first raise among them
Collect(rs) == Let(rs, LAMBDA x : IF Raised(x) THEN FirstRaise(x) ELSE Ok(Vals(x)))

\* [F(x) for x in <the value of r>]: the iterable first, then item by item
Comprehension(r, F(_)) ==
    Then(Then(r, Iter), LAMBDA xs : Collect([i \in 1..Len(xs) |-> F(xs[i])]))

\* for name, x in <the value of r>.items(): out[name] = F(<<name, x>>)
ItemsLoop(r, F(_)) ==
    Then(Then(r, Items), LAMBDA kvs : Collect([i \in 1..Len(kvs) |-> F(kvs[i])]))

(***************************************************************************)
(* SpecificationProcessor                                                  *)
(***************************************************************************)
process_metadata(d) == Get(d, "metadata", EmptyDict)

HeaderFormat(header) ==
    Then(Collect(<< Get(header, "border_line", EmptyStr),
                    Get(header, "file_name_line", EmptyStr),
                    Get(header, "description_line", EmptyStr),
                    Get(header, "blank_comment", EmptyStr),
                    Get(header, "assembly_lines", EmptyList),
                    Get(header, "directives", EmptyList) >>),
         LAMBDA a : Ok([border_line |-> a[1], file_name_line |-> a[2],
                        description_line |-> a[3], blank_comment |-> a[4],
                        assembly_lines |-> a[5], directives |-> a[6]]))

\* header_format read by subscript: an absent section raises
process_header_format_required(d) == Then(Subscript(d, "header_format"), HeaderFormat)

process_header_format(d) == Then(Get(d, "header_format", EmptyDict), HeaderFormat)

RegisterInfo(reg) ==
    Then(Collect(<< Subscript(reg, "name"), Subscript(reg, "purpose"),
                    Get(reg, "byte_regs", PyNone), Get(reg, "constraints", EmptyList) >>),
         LAMBDA a : Ok([name |-> a[1], purpose |-> a[2],
                        byte_regs |-> a[3], constraints |-> a[4]]))

RegisterUsage(usage) ==
    Then(Comprehension(Get(usage, "general_purpose", EmptyList), RegisterInfo),
         LAMBDA general_purpose : Ok([general_purpose |-> general_purpose]))

process_register_usage(d) == Then(Get(d, "register_usage", EmptyDict), RegisterUsage)

\* description read by subscript, like name and type
Field_description_required(f) ==
    Then(Collect(<< Subscript(f, "name"), Subscript(f, "type"),
                    Subscript(f, "description"), Get(f, "constraints", EmptyList) >>),
         LAMBDA a : Ok([name |-> a[1], type |-> a[2],
                        description |-> a[3], constraints |-> a[4]]))

Field(f) ==
    Then(Collect(<< Subscript(f, "name"), Subscript(f, "type"),
                    Get(f, "description", EmptyStr), Get(f, "constraints", EmptyList) >>),
         LAMBDA a : Ok([name |-> a[1], type |-> a[2],
                        description |-> a[3], constraints |-> a[4]]))

\* one iteration of the loop of process_data_structures, item = <<name, struct>>:
\* structures[name] = DataStructure(...)
DataStructure(item) ==
    Then(Collect(<< Comprehension(Get(item[2], "fields", EmptyList), Field),
                    Get(item[2], "documentation", EmptyStr),
                    Get(item[2], "constraints", EmptyList),
                    Get(item[2], "examples", EmptyList),
                    Get(item[2], "complexity", EmptyDict) >>),
         LAMBDA a : Ok(<<item[1], [name |-> PyStr(item[1]), fields |-> a[1],
                                   documentation |-> a[2], constraints |-> a[3],
                                   examples |-> a[4], complexity |-> a[5]]>>))

process_data_structures(d) == ItemsLoop(Get(d, "structures", EmptyDict), DataStructure)

\* impl_req, padding_rules, then ImplementationRequirements(...)
ImplementationRequirements(algo) ==
    Then(Get(algo, "implementation_requirements", EmptyDict), LAMBDA impl_req :
    Then(Get(impl_req, "padding_rules", EmptyDict), LAMBDA padding_rules :
    Then(Collect(<< Get(impl_req, "memory_operations", EmptyList),
                    Get(impl_req, "encoding_requirements", EmptyList),
                    Get(impl_req, "leftover_handling", EmptyList),
                    Get(padding_rules, "one_byte", EmptyList),
                    Get(padding_rules, "two_bytes", EmptyList) >>),
         LAMBDA a : Ok([memory_operations |-> a[1], encoding_requirements |-> a[2],
                        leftover_handling |-> a[3],
                        padding_rules |-> [one_byte |-> a[4], two_bytes |-> a[5]]]))))

\* a steps list wrapped as {"general": list}, the way strategies are
Algorithm_steps_coerced(item) ==
    Then(Collect(<< ImplementationRequirements(item[2]),
                    Get(item[2], "description", EmptyStr),
                    Then(Get(item[2], "steps", EmptyDict),
                         LAMBDA st : Ok(IF st.t = "list"
                                        THEN PyDict(<< <<"general", st>> >>) ELSE st)),
                    Get(item[2], "complexity", EmptyDict),
                    Get(item[2], "edge_cases", EmptyList),
                    Get(item[2], "preconditions", EmptyList),
                    Get(item[2], "postconditions", EmptyList),
                    Get(item[2], "invariants", EmptyList),
                    Get(item[2], "examples", EmptyList) >>),
         LAMBDA a : Ok(<<item[1], [name |-> PyStr(item[1]), description |-> a[2],
                                   implementation_requirements |-> a[1],
                                   steps |-> a[3], complexity |-> a[4],
                                   edge_cases |-> a[5], preconditions |-> a[6],
                                   postconditions |-> a[7], invariants |-> a[8],
                                   examples |-> a[9]]>>))

\* one iteration of the loop of process_algorithms, item = <<name, algo>>:
\* algorithms[name] = Algorithm(...)
Algorithm(item) ==
    Then(Collect(<< ImplementationRequirements(item[2]),
                    Get(item[2], "description", EmptyStr),
                    Get(item[2], "steps", EmptyDict),
                    Get(item[2], "complexity", EmptyDict),
                    Get(item[2], "edge_cases", EmptyList),
                    Get(item[2], "preconditions", EmptyList),
                    Get(item[2], "postconditions", EmptyList),
                    Get(item[2], "invariants", EmptyList),
                    Get(item[2], "examples", EmptyList) >>),
         LAMBDA a : Ok(<<item[1], [name |-> PyStr(item[1]), description |-> a[2],
                                   implementation_requirements |-> a[1],
                                   steps |-> a[3], complexity |-> a[4],
                                   edge_cases |-> a[5], preconditions |-> a[6],
                                   postconditions |-> a[7], invariants |-> a[8],
                                   examples |-> a[9]]>>))

process_algorithms(d) == ItemsLoop(Get(d, "algorithms", EmptyDict), Algorithm)

DefaultHandling == PyList(<<PyStr("Detect"), PyStr("Log"), PyStr("Handle")>>)

\* a mapping's description and handling defaulting to empty, not to the expansion
ErrorType_empty_defaults(err) ==
    IF err.t = "str"
    THEN Ok([name |-> err, description |-> PyStr("Handle " \o Format(err)),
             handling |-> DefaultHandling])
    ELSE Then(Subscript(err, "name"), LAMBDA name :
              Ok([name |-> name,
                  description |-> Get(err, "description", EmptyStr).val,
                  handling |-> Get(err, "handling", EmptyList).val]))

\* one iteration of the error_types loop whose entry is a str or a dict
ErrorType(err) ==
    IF err.t = "str"
    THEN Ok([name |-> err, description |-> PyStr("Handle " \o Format(err)),
             handling |-> DefaultHandling])
    ELSE Then(Subscript(err, "name"), LAMBDA name :
              Ok([name |-> name,
                  description |-> Get(err, "description", PyStr("Handle " \o Format(name))).val,
                  handling |-> Get(err, "handling", DefaultHandling).val]))

\* the entries of error_types_raw the loop appends for: neither branch takes the others
IsStrOrDict(x) == x.t \in {"str", "dict"}

\* a list of strategies kept as the list it is
Strategies_list_kept(strategies_raw) ==
    CASE strategies_raw.t = "list" -> strategies_raw
      [] strategies_raw.t = "dict" -> strategies_raw
      [] OTHER -> EmptyDict

\* strategies, from strategies_raw
Strategies(strategies_raw) ==
    CASE strategies_raw.t = "list" -> PyDict(<< <<"general", strategies_raw>> >>)
      [] strategies_raw.t = "dict" -> strategies_raw
      [] OTHER -> EmptyDict

\* error_types_raw and its loop, then strategies_raw, then ErrorHandling(...)
ErrorHandling(err_handling) ==
    Then(Then(Get(err_handling, "error_types", EmptyList), Iter), LAMBDA error_types_raw :
    Then(Collect([i \in 1..Len(SelectSeq(error_types_raw, IsStrOrDict)) |->
                     ErrorType(SelectSeq(error_types_raw, IsStrOrDict)[i])]),
         LAMBDA error_types :
             Ok([strategies |-> Strategies(Get(err_handling, "strategies", EmptyDict).val),
                 error_types |-> error_types,
                 syscall_requirements |->
                     Get(err_handling, "syscall_requirements", EmptyList).val])))

process_error_handling(d) == Then(Get(d, "error_handling", EmptyDict), ErrorHandling)

BssVariable(var) ==
    Then(Collect(<< Subscript(var, "name"), Subscript(var, "size"),
                    Subscript(var, "align"), Subscript(var, "purpose") >>),
         LAMBDA a : Ok([name |-> a[1], size |-> a[2], align |-> a[3], purpose |-> a[4]]))

SectionRequirements(reqs) ==
    Then(Comprehension(Then(Get(reqs, "bss", EmptyDict),
                            LAMBDA bss : Get(bss, "variables", EmptyList)),
                       BssVariable),
         LAMBDA bss_vars : Ok([data |-> Get(reqs, "data", EmptyList).val,
                               bss |-> bss_vars,
                               text |-> Get(reqs, "text", EmptyDict).val]))

process_section_requirements(d) ==
    Then(Get(d, "section_requirements", EmptyDict), SectionRequirements)

Benchmark(bench) ==
    Then(Collect(<< Subscript(bench, "name"), Subscript(bench, "input_size"),
                    Get(bench, "expected_time", PyNone),
                    Get(bench, "requirements", EmptyList) >>),
         LAMBDA a : Ok([name |-> a[1], input_size |-> a[2],
                        expected_time |-> a[3], requirements |-> a[4]]))

Performance(perf) ==
    Then(Comprehension(Get(perf, "benchmarks", EmptyList), Benchmark),
         LAMBDA benchmarks :
             Ok([time_complexity |-> Get(perf, "time_complexity", EmptyStr).val,
                 space_complexity |-> Get(perf, "space_complexity", EmptyStr).val,
                 constraints |-> Get(perf, "constraints", EmptyList).val,
                 register_usage |-> Get(perf, "register_usage", EmptyList).val,
                 memory_access |-> Get(perf, "memory_access", EmptyList).val,
                 benchmarks |-> benchmarks]))

process_performance(d) == Then(Get(d, "performance", EmptyDict), Performance)

TBD == PyStr("TBD")

\* one iteration of the unit_tests loop
TestCase(test) ==
    IF test.t = "str"
    THEN Ok([name |-> test, input |-> TBD, expected_output |-> TBD, validation |-> EmptyList])
    ELSE Then(Collect(<< Subscript(test, "name"), Get(test, "input", TBD),
                         Get(test, "expected_output", TBD),
                         Get(test, "validation", EmptyList) >>),
              LAMBDA a : Ok([name |-> a[1], input |-> a[2],
                             expected_output |-> a[3], validation |-> a[4]]))

\* one iteration of the integration_tests loop
IntegrationTest(test) ==
    Ok(IF test.t = "str" THEN PyDict(<< <<"name", test>> >>) ELSE test)

\* a bare conformance entry wrapped like an integration entry
ConformanceTest_as_name(test) ==
    Ok(IF test.t = "str" THEN PyDict(<< <<"name", test>> >>) ELSE test)

\* one iteration of the conformance_tests loop
ConformanceTest(test) ==
    Ok(IF test.t = "str" THEN PyDict(<< <<"standard", test>> >>) ELSE test)

Testing(test_data) ==
    Then(Collect(<< Comprehension(Get(test_data, "unit_tests", EmptyList), TestCase),
                    Comprehension(Get(test_data, "integration_tests", EmptyList),
                                  IntegrationTest),
                    Comprehension(Get(test_data, "conformance_tests", EmptyList),
                                  ConformanceTest) >>),
         LAMBDA a : Ok([unit_tests |-> a[1], integration_tests |-> a[2],
                        conformance_tests |-> a[3]]))

process_testing(d) == Then(Get(d, "testing", EmptyDict), Testing)

CodeStyle(style) ==
    Then(Collect(<< Get(style, "indentation", EmptyList), Get(style, "comments", EmptyList),
                    Get(style, "naming", EmptyList), Get(style, "organization", EmptyList) >>),
         LAMBDA a : Ok([indentation |-> a[1], comments |-> a[2],
                        naming |-> a[3], organization |-> a[4]]))

process_code_style(d) == Then(Get(d, "code_style", EmptyDict), CodeStyle)

(***************************************************************************)
(* SpecForge._create_specification                                         *)
(***************************************************************************)
\* the arguments of Specification(...), in evaluation order
Specification(d) ==
    Then(Collect(<< process_metadata(d), process_header_format(d),
                    process_register_usage(d), process_data_structures(d),
                    process_algorithms(d), process_error_handling(d),
                    process_section_requirements(d), process_performance(d),
                    process_testing(d), process_code_style(d) >>),
         LAMBDA a : Ok([metadata |-> a[1], header_format |-> a[2],
                        register_usage |-> a[3], structures |-> a[4],
                        algorithms |-> a[5], error_handling |-> a[6],
                        section_requirements |-> a[7], performance |-> a[8],
                        testing |-> a[9], code_style |-> a[10]]))

\* except KeyError -> ValidationError; except Exception -> SpecForgeError
CreateHandler(r) ==
    Let(r, LAMBDA x :
        IF x.ok THEN x
        ELSE IF x.exc.type = "KeyError"
        THEN Raise("ValidationError", "Missing required field: " \o x.exc.msg)
        ELSE Raise("SpecForgeError", "Error creating specification: " \o x.exc.msg))

_create_specification(d) == CreateHandler(Specification(d))

(***************************************************************************)
(* OutputFormatter.format_text: the list `lines`, or the first raise       *)
(***************************************************************************)
RECURSIVE Flatten(_, _)
Flatten(seqs, i) == IF i > Len(seqs) THEN <<>> ELSE seqs[i] \o Flatten(seqs, i + 1)

\* the lines of the parts rs, appended in order, up to the first raise
Cat(rs) == Let(rs, LAMBDA x : IF Raised(x) THEN FirstRaise(x) ELSE Ok(Flatten(Vals(x), 1)))

\* lines.append(s)
Line(s) == Ok(<<s>>)

\* for e in x: lines.append(f"{prefix}{e}")
Each(prefix, x) ==
    Then(Iter(x), LAMBDA xs : Ok([i \in 1..Len(xs) |-> prefix \o Format(xs[i])]))

\* lines.append(f"{prefix}{x[k]}")
KeyLine(prefix, x, k) == Then(Subscript(x, k), LAMBDA y : Line(prefix \o Format(y)))

\* the label appended without the `if x:` test
Optional_always_label(x, label, prefix) == Cat(<<Line(label), Each(prefix, x)>>)

\* if x: lines.append(label); for e in x: lines.append(f"{prefix}{e}")
Optional(x, label, prefix) ==
    IF Truthy(x) THEN Cat(<<Line(label), Each(prefix, x)>>) ELSE Ok(<<>>)

\* for e in es (a list the normalizer built): F(e)
ForEach(es, F(_)) == Cat([i \in 1..Len(es) |-> F(es[i])])

\* for k, v in x.items(): F(<<k, v>>)
ForItems(x, F(_)) == Then(Items(x), LAMBDA kvs : ForEach(kvs, F))

\* ', '.join(x)
RECURSIVE JoinStrs(_, _)
JoinStrs(xs, i) ==
    IF i > Len(xs) THEN ""
    ELSE xs[i].v \o (IF i < Len(xs) THEN ", " ELSE "") \o JoinStrs(xs, i + 1)
CommaJoin(x) ==
    LET it == Iter(x)
    IN  IF ~it.ok THEN Raise("TypeError", "can only join an iterable")
        ELSE IF \E i \in 1..Len(it.val) : it.val[i].t # "str"
        THEN LET i == CHOOSE k \in 1..Len(it.val) :
                          it.val[k].t # "str" /\ \A j \in 1..(k - 1) : it.val[j].t = "str"
             IN  Raise("TypeError", "sequence item " \o ToString(i - 1)
                                    \o ": expected str instance, "
                                    \o TypeName(it.val[i]) \o " found")
        ELSE Ok(JoinStrs(it.val, 1))

MetadataLines(s) ==
    Cat(<< Line("=== SPECIFICATION ==="),
           KeyLine("Name: ", s.metadata, "name"),
           KeyLine("Version: ", s.metadata, "version"),
           KeyLine("Description: ", s.metadata, "description"),
           Line("") >>)

HeaderFormatLines(s) ==
    Cat(<< Line("=== HEADER FORMAT ==="),
           Line("Border Line: " \o Format(s.header_format.border_line)),
           Line("Assembly Lines:"),
           Each("  ", s.header_format.assembly_lines),
           Line("Directives:"),
           Each("  ", s.header_format.directives),
           Line("") >>)

RegisterLines(reg) ==
    Cat(<< Line("Register: " \o Format(reg.name)),
           Line("Purpose: " \o Format(reg.purpose)),
           IF Truthy(reg.byte_regs)
           THEN Then(CommaJoin(reg.byte_regs), LAMBDA j : Line("Byte Registers: " \o j))
           ELSE Ok(<<>>),
           Optional(reg.constraints, "Constraints:", "  - "),
           Line("") >>)

\* the section header only when there is a register to list
RegisterUsageLines_skip_empty(s) ==
    IF s.register_usage.general_purpose = <<>> THEN Ok(<<>>)
    ELSE Cat(<< Line("=== REGISTER USAGE ==="),
                ForEach(s.register_usage.general_purpose, RegisterLines) >>)

RegisterUsageLines(s) ==
    Cat(<< Line("=== REGISTER USAGE ==="),
           ForEach(s.register_usage.general_purpose, RegisterLines) >>)

FieldLine(f) ==
    Line("  " \o Format(f.name) \o " (" \o Format(f.type) \o "): " \o Format(f.description))

StructureLines(item) ==
    LET name == item[1]
        struct == item[2]
    IN  Cat(<< Line("Structure: " \o name),
               Line("Documentation: " \o Format(struct.documentation)),
               Line("Fields:"),
               ForEach(struct.fields, FieldLine),
               Optional(struct.constraints, "Constraints:", "  - "),
               Line("") >>)

DataStructuresLines(s) ==
    Cat(<< Line("=== DATA STRUCTURES ==="), ForEach(s.structures, StructureLines) >>)

StepLines(item) ==
    Cat(<< Line("  " \o item[1] \o ":"), Each("    - ", item[2]) >>)

AlgorithmLines(item) ==
    LET name == item[1]
        algo == item[2]
        req == algo.implementation_requirements
    IN  Cat(<< Line("Algorithm: " \o name),
               Line("Description: " \o Format(algo.description)),
               Line("Implementation Requirements:"),
               Line("  Memory Operations:"),
               Each("    - ", req.memory_operations),
               Line("  Encoding Requirements:"),
               Each("    - ", req.encoding_requirements),
               Line("  Leftover Handling:"),
               Each("    - ", req.leftover_handling),
               Line("  Padding Rules:"),
               Line("    One Byte:"),
               Each("      - ", req.padding_rules.one_byte),
               Line("    Two Bytes:"),
               Each("      - ", req.padding_rules.two_bytes),
               Line("Steps:"),
               ForItems(algo.steps, StepLines),
               Optional(algo.edge_cases, "Edge Cases:", "  - "),
               Optional(algo.preconditions, "Preconditions:", "  - "),
               Optional(algo.postconditions, "Postconditions:", "  - "),
               Optional(algo.invariants, "Invariants:", "  - "),
               Line("") >>)

\* the algorithms walked last to first
AlgorithmsLines_reversed(s) ==
    Cat(<< Line("=== ALGORITHMS ==="),
           ForEach([i \in 1..Len(s.algorithms) |-> s.algorithms[Len(s.algorithms) + 1 - i]],
                   AlgorithmLines) >>)

AlgorithmsLines(s) ==
    Cat(<< Line("=== ALGORITHMS ==="), ForEach(s.algorithms, AlgorithmLines) >>)

ErrorTypeLines(error) ==
    Cat(<< Line("  " \o Format(error.name) \o ":"),
           Line("    Description: " \o Format(error.description)),
           Line("    Handling:"),
           Each("      - ", error.handling) >>)

ErrorHandlingLines(s) ==
    LET strategies == s.error_handling.strategies
    IN  Cat(<< Line("=== ERROR HANDLING ==="),
               Line("Strategies:"),
               CASE strategies.t = "dict" -> ForItems(strategies, StepLines)
                 [] strategies.t = "list" -> Each("  - ", strategies)
                 [] OTHER -> Ok(<<>>),
               Line("Error Types:"),
               ForEach(s.error_handling.error_types, ErrorTypeLines),
               Line("Syscall Requirements:"),
               Each("  - ", s.error_handling.syscall_requirements),
               Line("") >>)

BssLines(var) ==
    Cat(<< Line("  " \o Format(var.name) \o ":"),
           Line("    Size: " \o Format(var.size)),
           Line("    Align: " \o Format(var.align)),
           Line("    Purpose: " \o Format(var.purpose)) >>)

SectionRequirementsLines(s) ==
    Cat(<< Line("=== SECTION REQUIREMENTS ==="),
           Line("Data Section:"),
           Each("  - ", s.section_requirements.data),
           Line("BSS Section:"),
           ForEach(s.section_requirements.bss, BssLines),
           Line("Text Section:"),
           ForItems(s.section_requirements.text, StepLines),
           Line("") >>)

BenchmarkLines(bench) ==
    Cat(<< Line("  " \o Format(bench.name) \o ":"),
           Line("    Input Size: " \o Format(bench.input_size)),
           IF Truthy(bench.expected_time)
           THEN Line("    Expected Time: " \o Format(bench.expected_time))
           ELSE Ok(<<>>),
           Optional(bench.requirements, "    Requirements:", "      - ") >>)

PerformanceLines(s) ==
    Cat(<< Line("=== PERFORMANCE ==="),
           Line("Time Complexity: " \o Format(s.performance.time_complexity)),
           Line("Space Complexity: " \o Format(s.performance.space_complexity)),
           Line("Constraints:"),
           Each("  - ", s.performance.constraints),
           Line("Register Usage:"),
           Each("  - ", s.performance.register_usage),
           Line("Memory Access:"),
           Each("  - ", s.performance.memory_access),
           Line("Benchmarks:"),
           ForEach(s.performance.benchmarks, BenchmarkLines),
           Line("") >>)

UnitTestLines(test) ==
    Cat(<< Line("  " \o Format(test.name) \o ":"),
           Line("    Input: " \o Format(test.input)),
           Line("    Expected Output: " \o Format(test.expected_output)),
           Optional(test.validation, "    Validation:", "      - ") >>)

\* the body of `for key, value in test.items()`
IntegrationKeyLines(item) ==
    LET key == item[1]
        value == item[2]
    IN  IF key = "name" THEN Ok(<<>>)
        ELSE IF value.t = "list"
        THEN Cat(<< Line("    " \o key \o ":"), Each("      - ", value) >>)
        ELSE Line("    " \o key \o ": " \o Format(value))

IntegrationTestLines(test) ==
    Cat(<< Then(Subscript(test, "name"), LAMBDA n : Line("  " \o Format(n) \o ":")),
           ForItems(test, IntegrationKeyLines) >>)

VectorLines(vector) ==
    Cat(<< KeyLine("    Input: ", vector, "input"), KeyLine("    Output: ", vector, "output") >>)

ConformanceTestLines(test) ==
    LET standard == KeyLine("  Standard: ", test, "standard")
    IN  IF ~standard.ok THEN standard
        ELSE Cat(<< standard,
                    IF HasKey(test, "test_vectors")
                    THEN Cat(<< Line("  Test Vectors:"),
                                Then(Iter(Lookup(test, "test_vectors")),
                                     LAMBDA vs : ForEach(vs, VectorLines)) >>)
                    ELSE Ok(<<>>) >>)

TestingLines(s) ==
    Cat(<< Line("=== TESTING ==="),
           Line("Unit Tests:"),
           ForEach(s.testing.unit_tests, UnitTestLines),
           Line("Integration Tests:"),
           ForEach(s.testing.integration_tests, IntegrationTestLines),
           Line("Conformance Tests:"),
           ForEach(s.testing.conformance_tests, ConformanceTestLines),
           Line("") >>)

CodeStyleLines(s) ==
    Cat(<< Line("=== CODE STYLE ==="),
           Line("Indentation:"),
           Each("  - ", s.code_style.indentation),
           Line("Comments:"),
           Each("  - ", s.code_style.comments),
           Line("Naming:"),
           Each("  - ", s.code_style.naming),
           Line("Organization:"),
           Each("  - ", s.code_style.organization) >>)

format_text(s) ==
    Cat(<< MetadataLines(s), HeaderFormatLines(s), RegisterUsageLines(s),
           DataStructuresLines(s), AlgorithmsLines(s), ErrorHandlingLines(s),
           SectionRequirementsLines(s), PerformanceLines(s), TestingLines(s),
           CodeStyleLines(s) >>)

(***************************************************************************)
(* SpecForge.process_spec                                                  *)
(***************************************************************************)
\* except Exception as e: raise SpecForgeError(f"Failed to process specification: {str(e)}")
ProcessHandler(r) ==
    Let(r, LAMBDA x :
        IF x.ok THEN x
        ELSE Raise("SpecForgeError", "Failed to process specification: " \o x.exc.msg))

process_spec(d) == ProcessHandler(Then(_create_specification(d), format_text))

(***************************************************************************)
(* Raw documents: what yaml.safe_load hands to process_spec (main)         *)
(***************************************************************************)
\* longest list a document family enumerates
MaxLen == 2
\* most algorithms a document of the algorithms family lists
MaxAlgos == 2

S(x) == PyStr(x)
StrList(xs) == PyList([i \in 1..Len(xs) |-> PyStr(xs[i])])
SeqsUpTo(X, n) == UNION {[1..k -> X] : k \in 0..n}
Without(d, keys) == PyDict(SelectSeq(d.v, LAMBDA kv : kv[1] \notin keys))

\* a key the document does not have
Absent == [t |-> "absent", v |-> <<>>]
Present(kvs) == PyDict(SelectSeq(kvs, LAMBDA kv : kv[2].t # "absent"))

SectionKeys ==
    << "header_format", "register_usage", "structures", "algorithms", "error_handling",
       "section_requirements", "performance", "testing", "code_style" >>

MetadataFields == {"name", "version", "description"}
FullMetadata ==
    PyDict(<< <<"name", S("m")>>, <<"version", S("1")>>, <<"description", S("d")>> >>)

FullRegister ==
    PyDict(<< <<"name", S("r")>>, <<"purpose", S("p")>>,
              <<"byte_regs", StrList(<<"x", "y">>)>>, <<"constraints", StrList(<<"c">>)>> >>)
FullField ==
    PyDict(<< <<"name", S("n")>>, <<"type", S("t")>>, <<"description", S("d")>>,
              <<"constraints", StrList(<<"c">>)>> >>)
FullBss ==
    PyDict(<< <<"name", S("v")>>, <<"size", PyInt(8)>>, <<"align", PyInt(4)>>,
              <<"purpose", S("p")>> >>)
FullBenchmark ==
    PyDict(<< <<"name", S("b")>>, <<"input_size", S("n")>>, <<"expected_time", S("t")>>,
              <<"requirements", StrList(<<"x">>)>> >>)
FullErrorType ==
    PyDict(<< <<"name", S("e")>>, <<"description", S("d")>>, <<"handling", StrList(<<"x">>)>> >>)
FullUnitTest ==
    PyDict(<< <<"name", S("u")>>, <<"input", S("x")>>, <<"expected_output", S("y")>>,
              <<"validation", StrList(<<"v">>)>> >>)
FullIntegrationTest ==
    PyDict(<< <<"name", S("j")>>, <<"k", S("v")>>, <<"l", StrList(<<"x", "y">>)>> >>)
FullConformanceTest ==
    PyDict(<< <<"standard", S("s")>>,
              <<"test_vectors", PyList(<< PyDict(<< <<"input", S("x")>>, <<"output", S("y")>> >>) >>)>> >>)
FullAlgorithm ==
    PyDict(<< <<"description", S("d")>>,
              <<"implementation_requirements",
                PyDict(<< <<"memory_operations", StrList(<<"x">>)>>,
                          <<"encoding_requirements", StrList(<<"y">>)>>,
                          <<"leftover_handling", StrList(<<"x">>)>>,
                          <<"padding_rules", PyDict(<< <<"one_byte", StrList(<<"x">>)>>,
                                                       <<"two_bytes", StrList(<<"y">>)>> >>)>> >>)>>,
              <<"steps", PyDict(<< <<"s", StrList(<<"x", "y">>)>>, <<"u", StrList(<<"y">>)>> >>)>>,
              <<"complexity", PyDict(<< <<"k", S("v")>> >>)>>,
              <<"edge_cases", StrList(<<"x">>)>>,
              <<"preconditions", StrList(<<"x">>)>>,
              <<"postconditions", StrList(<<"y">>)>>,
              <<"invariants", StrList(<<"x">>)>>,
              <<"examples", PyList(<< PyDict(<< <<"k", S("v")>> >>) >>)>> >>)
FullStructure ==
    PyDict(<< <<"fields", PyList(<<FullField, Without(FullField, {"description", "constraints"})>>)>>,
              <<"documentation", S("d")>>, <<"constraints", StrList(<<"c">>)>>,
              <<"examples", StrList(<<"x">>)>>, <<"complexity", PyDict(<< <<"k", S("v")>> >>)>> >>)

\* a populated, well-formed value of each section
Sample(key) ==
    CASE key = "header_format" ->
           PyDict(<< <<"border_line", S("b")>>, <<"file_name_line", S("f")>>,
                     <<"description_line", S("d")>>, <<"blank_comment", S("c")>>,
                     <<"assembly_lines", StrList(<<"x", "y">>)>>,
                     <<"directives", StrList(<<"x">>)>> >>)
      [] key = "register_usage" ->
           PyDict(<< <<"general_purpose",
                       PyList(<<FullRegister, Without(FullRegister, {"byte_regs", "constraints"})>>)>> >>)
      [] key = "structures" -> PyDict(<< <<"S", FullStructure>> >>)
      [] key = "algorithms" ->
           PyDict(<< <<"A", FullAlgorithm>>, <<"B", EmptyDict>> >>)
      [] key = "error_handling" ->
           PyDict(<< <<"strategies", StrList(<<"x", "y">>)>>,
                     <<"error_types", PyList(<<S("e"), FullErrorType>>)>>,
                     <<"syscall_requirements", StrList(<<"x">>)>> >>)
      [] key = "section_requirements" ->
           PyDict(<< <<"data", StrList(<<"x">>)>>,
                     <<"bss", PyDict(<< <<"variables", PyList(<<FullBss>>)>> >>)>>,
                     <<"text", PyDict(<< <<"k", StrList(<<"x">>)>> >>)>> >>)
      [] key = "performance" ->
           PyDict(<< <<"time_complexity", S("n")>>, <<"space_complexity", S("1")>>,
                     <<"constraints", StrList(<<"c">>)>>, <<"register_usage", StrList(<<"x">>)>>,
                     <<"memory_access", StrList(<<"y">>)>>,
                     <<"benchmarks",
                       PyList(<<FullBenchmark,
                                Without(FullBenchmark, {"expected_time", "requirements"})>>)>> >>)
      [] key = "testing" ->
           PyDict(<< <<"unit_tests", PyList(<<S("t"), FullUnitTest>>)>>,
                     <<"integration_tests", PyList(<<S("i"), FullIntegrationTest>>)>>,
                     <<"conformance_tests", PyList(<<S("c"), FullConformanceTest>>)>> >>)
      [] key = "code_style" ->
           PyDict(<< <<"indentation", StrList(<<"x">>)>>, <<"comments", StrList(<<"y">>)>>,
                     <<"naming", StrList(<<"x">>)>>, <<"organization", StrList(<<"y">>)>> >>)

\* the document with this metadata and, for each key, sections[key] (or Absent)
Doc(metadata, sections) ==
    Present(<< <<"metadata", metadata>> >>
            \o [i \in 1..Len(SectionKeys) |-> <<SectionKeys[i], sections[SectionKeys[i]]>>])

KeySet == {SectionKeys[i] : i \in 1..Len(SectionKeys)}
NoSections == [k \in KeySet |-> Absent]
AllSections == [k \in KeySet |-> Sample(k)]
\* complete metadata and one section
With(key, section) == Doc(FullMetadata, [NoSections EXCEPT ![key] = section])

\* metadata absent, or any subset of its fields; alone or with every section
MetadataDocs ==
    {Doc(m, rest) :
        m \in {Absent} \cup {Without(FullMetadata, out) : out \in SUBSET MetadataFields},
        rest \in {NoSections, AllSections}}

\* complete metadata and any subset of the sections
SubsetDocs ==
    {Doc(FullMetadata, [k \in KeySet |-> IF k \in Here THEN Sample(k) ELSE Absent]) :
        Here \in SUBSET KeySet}

Keys(d) == {d.v[i][1] : i \in 1..Len(d.v)}
Put(d, key, val) == PyDict([i \in 1..Len(d.v) |-> IF d.v[i][1] = key THEN <<key, val>> ELSE d.v[i]])
Omissions(full) == {Without(full, out) : out \in SUBSET Keys(full)}
One(key, val) == PyDict(<< <<key, val>> >>)
\* the sequences over X of length at most n without a repeated element
DistinctSeqs(X, n) == {xs \in SeqsUpTo(X, n) : \A i, j \in 1..Len(xs) : xs[i] = xs[j] => i = j}

\* where an item of each kind sits in a document
InRegisters(regs) == With("register_usage", One("general_purpose", PyList(regs)))
InFields(fs) == With("structures", One("S", One("fields", PyList(fs))))
InAlgorithms(kvs) == With("algorithms", PyDict(kvs))
InBss(vs) == With("section_requirements", One("bss", One("variables", PyList(vs))))
InBenchmarks(bs) == With("performance", One("benchmarks", PyList(bs)))
InErrorTypes(es) == With("error_handling", One("error_types", PyList(es)))
InUnitTests(ts) == With("testing", One("unit_tests", PyList(ts)))
InIntegrationTests(ts) == With("testing", One("integration_tests", PyList(ts)))
InConformanceTests(ts) == With("testing", One("conformance_tests", PyList(ts)))

\* one item of a section, with any subset of its fields left out
ItemDocs ==
    {InRegisters(<<x>>) : x \in Omissions(FullRegister)}
    \cup {InFields(<<x>>) : x \in Omissions(FullField)}
    \cup {InBss(<<x>>) : x \in Omissions(FullBss)}
    \cup {InBenchmarks(<<x>>) : x \in Omissions(FullBenchmark)}
    \cup {InErrorTypes(<<x>>) : x \in Omissions(FullErrorType)}
    \cup {InUnitTests(<<x>>) : x \in Omissions(FullUnitTest)}

\* values of an unexpected type
Misfits ==
    {PyNone, S("io"), S(""), PyInt(1), PyInt(0), StrList(<<"x">>), EmptyList,
     One("k", S("v")), EmptyDict}

\* a section, a field of a section, an item, or a field of an item, of an unexpected type
MisfitDocs ==
    {With(k, w) : k \in KeySet, w \in Misfits}
    \cup UNION {{With(k, Put(Sample(k), f, w)) : f \in Keys(Sample(k)), w \in Misfits} : k \in KeySet}
    \cup UNION {{InRegisters(<<w>>), InFields(<<w>>), InAlgorithms(<< <<"A", w>> >>),
                 With("structures", One("S", w)), InBss(<<w>>), InBenchmarks(<<w>>),
                 InErrorTypes(<<w>>), InUnitTests(<<w>>), InIntegrationTests(<<w>>),
                 InConformanceTests(<<w>>),
                 With("section_requirements", One("bss", w))} : w \in Misfits}
    \cup UNION {{InRegisters(<<Put(FullRegister, f, w)>>) : f \in Keys(FullRegister)}
                \cup {InFields(<<Put(FullField, f, w)>>) : f \in Keys(FullField)}
                \cup {InAlgorithms(<< <<"A", Put(FullAlgorithm, f, w)>> >>) : f \in Keys(FullAlgorithm)}
                \cup {With("structures", One("S", Put(FullStructure, f, w))) : f \in Keys(FullStructure)}
                \cup {InBss(<<Put(FullBss, f, w)>>) : f \in Keys(FullBss)}
                \cup {InBenchmarks(<<Put(FullBenchmark, f, w)>>) : f \in Keys(FullBenchmark)}
                \cup {InErrorTypes(<<Put(FullErrorType, f, w)>>) : f \in Keys(FullErrorType)}
                \cup {InUnitTests(<<Put(FullUnitTest, f, w)>>) : f \in Keys(FullUnitTest)}
                \cup {InIntegrationTests(<<Put(FullIntegrationTest, f, w)>>) : f \in Keys(FullIntegrationTest)}
                \cup {InConformanceTests(<<Put(FullConformanceTest, f, w)>>) : f \in Keys(FullConformanceTest)}
                : w \in Misfits}

\* error_handling.strategies: absent, a list, a mapping, or something else
StepLists == {StrList(xs) : xs \in SeqsUpTo({"x", "y"}, MaxLen)}
StrategyMappings ==
    UNION {{PyDict([i \in 1..Len(ks) |-> <<ks[i], vs[i]>>]) :
               vs \in [1..Len(ks) -> {StrList(<<"x">>), StrList(<<"y", "x">>), EmptyList}]} :
           ks \in DistinctSeqs({"general", "io"}, MaxLen)}
StrategyDocs ==
    {With("error_handling", Present(<< <<"strategies", st>>, <<"error_types", et>> >>)) :
        st \in {Absent, PyNone, S("io"), PyInt(1)} \cup StepLists \cup StrategyMappings,
        et \in {Absent, PyList(<<S("e")>>)}}

\* error_handling.error_types: bare names, mappings (canonical, partial, nameless), others
CanonicalErrorType(n) ==
    PyDict(<< <<"name", S(n)>>, <<"description", S("Handle " \o n)>>,
              <<"handling", DefaultHandling>> >>)
ErrorTypeEntries ==
    {S("e"), S("f"), One("name", S("e")), CanonicalErrorType("e"), CanonicalErrorType("f"),
     Without(FullErrorType, {"handling"}), Without(FullErrorType, {"description"}),
     Without(FullErrorType, {"name"}), PyInt(1), PyNone}
ErrorTypeDocs == {InErrorTypes(es) : es \in SeqsUpTo(ErrorTypeEntries, MaxLen)}

\* testing: each of the three lists in turn
UnitTestEntries ==
    {S("t"), FullUnitTest, One("name", S("u")), Without(FullUnitTest, {"input"}),
     Without(FullUnitTest, {"expected_output", "validation"}), Without(FullUnitTest, {"name"})}
IntegrationTestEntries ==
    {S("i"), FullIntegrationTest, One("name", S("j")), One("k", S("v")), PyInt(1)}
ConformanceTestEntries ==
    {S("c"), FullConformanceTest, One("standard", S("s")), One("k", S("v")), PyNone}
TestingDocs ==
    {InUnitTests(ts) : ts \in SeqsUpTo(UnitTestEntries, MaxLen)}
    \cup {InIntegrationTests(ts) : ts \in SeqsUpTo(IntegrationTestEntries, MaxLen)}
    \cup {InConformanceTests(ts) : ts \in SeqsUpTo(ConformanceTestEntries, MaxLen)}

\* algorithms: up to MaxAlgos of the names, in every order, each with one of the bodies
AlgorithmNames == {"A", "B", "C"}
AlgorithmBodies ==
    {EmptyDict, FullAlgorithm,
     One("steps", PyDict(<< <<"u", StrList(<<"y", "x">>)>>, <<"s", EmptyList>> >>)),
     One("steps", PyDict(<< <<"s", StrList(<<"x", "x">>)>> >>)),
     One("steps", StrList(<<"x", "y">>))}
AlgorithmDocs ==
    UNION {{InAlgorithms([i \in 1..Len(ns) |-> <<ns[i], bs[i]>>]) :
               bs \in [1..Len(ns) -> AlgorithmBodies]} :
           ns \in DistinctSeqs(AlgorithmNames, MaxAlgos)}

\* a document that is no mapping
NonMappingDocs == {PyNone, StrList(<<"x">>)}

Docs ==
    MetadataDocs \cup SubsetDocs \cup ItemDocs \cup MisfitDocs \cup StrategyDocs
    \cup ErrorTypeDocs \cup TestingDocs \cup AlgorithmDocs \cup NonMappingDocs

(***************************************************************************)
(* Cache: the dict and the lock of one instance, and SpecForge's use of it *)
(***************************************************************************)
\* most threads that use one Cache at a time
NumThreads == 2
\* most process_spec calls made on one document
MaxCalls == 2

Threads == 1..NumThreads
CacheKeys == {"a", "b"}
CacheValues == {PyStr("v"), PyStr("w")}
OutputFormats == {"text", "json"}

\* a thread that is in no Cache method
NoCall == [op |-> "none", key |-> "", value |-> PyNone]

\* Cache.__init__: self._cache = {}
EmptyCache == [k \in CacheKeys |-> Absent]
\* self._cache.get(key)
dict_get(c, key) == IF c[key] = Absent THEN PyNone ELSE c[key]
\* self._cache[key] = value
dict_set(c, key, value) == [c EXCEPT ![key] = value]
\* self._cache.clear()
dict_clear(c) == EmptyCache

\* SpecForge.__init__: self.cache = Cache() if cache_enabled else None
SpecForge(cache_enabled) == [cache |-> IF cache_enabled THEN EmptyCache ELSE PyNone]

\* the report kept in the cache under a key and returned from there on the next call
SpecForge_process_spec_memoized(self, spec_data, output_format) ==
    IF self.cache = PyNone THEN [result |-> process_spec(spec_data), self |-> self]
    ELSE IF self.cache["a"] # Absent
    THEN [result |-> Ok(<<Format(self.cache["a"])>>), self |-> self]
    ELSE Let(process_spec(spec_data),
             LAMBDA r : [result |-> r,
                         self |-> IF r.ok
                                  THEN [self EXCEPT !.cache = dict_set(@, "a", StrList(r.val))]
                                  ELSE self])

\* self.process_spec(spec_data, output_format): what it returns or raises, and self after
SpecForge_process_spec(self, spec_data, output_format) ==
    [result |-> process_spec(spec_data), self |-> self]

(***************************************************************************)
(* The program: a document is loaded, then _create_specification or        *)
(* process_spec is called on it (SpecForge keeps nothing between calls).   *)
(***************************************************************************)
NoSpec == PyNone
NoResult == [ok |-> FALSE, val |-> PyNone, exc |-> NoExc]

\* SpecForge and its Cache as constructed: nothing called yet, no thread in the Cache
Constructed ==
    /\ op = "none"
    /\ outcome = "none"
    /\ spec = NoSpec
    /\ lines = <<>>
    /\ exc = NoExc
    /\ cache = EmptyCache
    /\ lock = FALSE
    /\ pc = [t \in Threads |-> "idle"]
    /\ call = [t \in Threads |-> NoCall]
    /\ ret = [t \in Threads |-> PyNone]
    /\ inside = [t \in Threads |-> FALSE]
    /\ completed = EmptyCache
    /\ first = NoResult
    /\ calls = <<>>

Init == data \in Docs /\ Constructed

\* spec = self._create_specification(data), called on its own
CreateSpecification ==
    \E r \in {_create_specification(data)} :
        /\ op' = "_create_specification"
        /\ outcome' = IF r.ok THEN "returned" ELSE "raised"
        /\ spec' = IF r.ok THEN r.val ELSE NoSpec
        /\ exc' = r.exc
        /\ lines' = <<>>
        /\ UNCHANGED <<data, cacheVars, callVars>>

\* report = self.process_spec(data); lines is the list the report joins with "\n",
\* spec the Specification process_spec built on the way (NoSpec if it built none)
ProcessSpec ==
    \E c \in {_create_specification(data)}, r \in {process_spec(data)} :
        /\ op' = "process_spec"
        /\ outcome' = IF r.ok THEN "returned" ELSE "raised"
        /\ spec' = IF c.ok THEN c.val ELSE NoSpec
        /\ exc' = r.exc
        /\ lines' = IF r.ok THEN r.val ELSE <<>>
        /\ UNCHANGED <<data, cacheVars, callVars>>

Next == CreateSpecification \/ ProcessSpec

Spec == Init /\ [][Next]_vars

(***************************************************************************)
(* Two SpecForge instances on one document, one built with                 *)
(* cache_enabled=True (its Cache is `cache`) and one with                  *)
(* cache_enabled=False; callers of process_spec and users of the Cache.    *)
(***************************************************************************)
\* the documents the instances are called on
ForgeDocs ==
    MetadataDocs \cup NonMappingDocs \cup {With(k, Sample(k)) : k \in KeySet}
    \cup {InAlgorithms(<< <<"A", One("steps", st)>> >>) : st \in StepLists}

ForgeInit == data \in ForgeDocs /\ Constructed

\* SpecForge(cache_enabled=cache_enabled).process_spec(data, output_format)
Forge(cache_enabled, output_format) ==
    /\ Len(calls) < MaxCalls
    /\ \E c \in {_create_specification(data)},
          r \in {SpecForge_process_spec(
                     IF cache_enabled THEN [SpecForge(TRUE) EXCEPT !.cache = cache]
                     ELSE SpecForge(FALSE),
                     data, output_format)} :
          /\ op' = "process_spec"
          /\ outcome' = IF r.result.ok THEN "returned" ELSE "raised"
          /\ spec' = IF c.ok THEN c.val ELSE NoSpec
          /\ exc' = r.result.exc
          /\ lines' = IF r.result.ok THEN r.result.val ELSE <<>>
          /\ cache' = IF cache_enabled THEN r.self.cache ELSE cache
          /\ first' = IF calls = <<>> THEN r.result ELSE first
          /\ calls' = Append(calls, <<cache_enabled, output_format>>)
          /\ UNCHANGED <<data, lock, pc, call, ret, inside, completed>>

\* forge.cache.set(key, value) and forge.cache.clear() between two process_spec calls,
\* each a whole call of the single thread that uses the instance
CacheSet(key, value) ==
    /\ ~lock
    /\ cache' = dict_set(cache, key, value)
    /\ completed' = dict_set(completed, key, value)
    /\ UNCHANGED <<forgeVars, callVars, lock, pc, call, ret, inside>>

CacheClear ==
    /\ ~lock
    /\ cache' = dict_clear(cache)
    /\ completed' = dict_clear(completed)
    /\ UNCHANGED <<forgeVars, callVars, lock, pc, call, ret, inside>>

ForgeNext ==
    \/ \E cache_enabled \in BOOLEAN, output_format \in OutputFormats :
          Forge(cache_enabled, output_format)
    \/ \E key \in CacheKeys, value \in CacheValues : CacheSet(key, value)
    \/ CacheClear

ForgeSpec == ForgeInit /\ [][ForgeNext]_vars

(***************************************************************************)
(* Threads on one Cache. A thread is idle (outside the Cache), waiting to   *)
(* acquire self._lock, in the body of the method it called, about to        *)
(* release and return, or, for get_lock, at the yield: in the with-block    *)
(* of its caller.                                                           *)
(***************************************************************************)
CacheCalls ==
    {[op |-> "get", key |-> k, value |-> PyNone] : k \in CacheKeys}
    \cup {[op |-> "set", key |-> k, value |-> v] : k \in CacheKeys, v \in CacheValues}
    \cup {[op |-> "clear", key |-> "", value |-> PyNone]}
At(t, where, method) == pc[t] = where /\ call[t].op = method

\* thread t calls cache.get(key), cache.set(key, value) or cache.clear()
Call(t, c) ==
    /\ pc[t] = "idle"
    /\ call' = [call EXCEPT ![t] = c]
    /\ pc' = [pc EXCEPT ![t] = "acquire"]
    /\ UNCHANGED <<forgeVars, callVars, cache, lock, ret, inside, completed>>

\* threading.Lock: acquire returns only while no thread holds the lock
\* the lock let through whatever its state
CanAcquire_unguarded(t) == TRUE

\* a reentrant lock: the thread that holds it through get_lock is let through
CanAcquire_reentrant(t) == ~lock \/ inside[t]

CanAcquire(t) == ~lock

\* with self._lock: (__enter__)
Acquire(t) ==
    /\ pc[t] = "acquire"
    /\ CanAcquire(t)
    /\ lock' = TRUE
    /\ pc' = [pc EXCEPT ![t] = IF call[t].op = "get_lock" THEN "yield" ELSE "body"]
    /\ inside' = [inside EXCEPT ![t] = @ \/ call[t].op = "get_lock"]
    /\ UNCHANGED <<forgeVars, callVars, cache, call, ret, completed>>

\* return self._cache.get(key)
get(t) ==
    /\ At(t, "body", "get")
    /\ ret' = [ret EXCEPT ![t] = dict_get(cache, call[t].key)]
    /\ pc' = [pc EXCEPT ![t] = "release"]
    /\ UNCHANGED <<forgeVars, callVars, cache, lock, call, inside, completed>>

\* self._cache[key] = value
set(t) ==
    /\ At(t, "body", "set")
    /\ cache' = dict_set(cache, call[t].key, call[t].value)
    /\ pc' = [pc EXCEPT ![t] = "release"]
    /\ UNCHANGED <<forgeVars, callVars, lock, call, ret, inside, completed>>

\* self._cache.clear()
clear(t) ==
    /\ At(t, "body", "clear")
    /\ cache' = dict_clear(cache)
    /\ pc' = [pc EXCEPT ![t] = "release"]
    /\ UNCHANGED <<forgeVars, callVars, lock, call, ret, inside, completed>>

\* the end of `with self._lock:` (__exit__) and the return to the caller, where the
\* call's frame ends; completed is the dict as the set and clear calls that have
\* returned leave it
Release(t) ==
    /\ pc[t] = "release"
    /\ lock' = FALSE
    /\ completed' = CASE call[t].op = "set" -> dict_set(completed, call[t].key, call[t].value)
                      [] call[t].op = "clear" -> dict_clear(completed)
                      [] OTHER -> completed
    /\ pc' = [pc EXCEPT ![t] = IF inside[t] THEN "yield" ELSE "idle"]
    /\ call' = [call EXCEPT ![t] = IF inside[t] THEN @ ELSE NoCall]
    /\ ret' = [ret EXCEPT ![t] = IF inside[t] THEN @ ELSE PyNone]
    /\ UNCHANGED <<forgeVars, callVars, cache, inside>>

\* with cache.get_lock(key): -- the caller enters get_lock
get_lock(t, key) ==
    /\ pc[t] = "idle"
    /\ call' = [call EXCEPT ![t] = [op |-> "get_lock", key |-> key, value |-> PyNone]]
    /\ pc' = [pc EXCEPT ![t] = "acquire"]
    /\ UNCHANGED <<forgeVars, callVars, cache, lock, ret, inside, completed>>

\* inside its with-block, the caller calls cache.get, cache.set or cache.clear
CallInside(t, c) ==
    /\ pc[t] = "yield"
    /\ call' = [call EXCEPT ![t] = c]
    /\ pc' = [pc EXCEPT ![t] = "acquire"]
    /\ UNCHANGED <<forgeVars, callVars, cache, lock, ret, inside, completed>>

\* the caller's with-block ends: get_lock resumes after the yield and leaves
\* `with self._lock:`
ExitLock(t) ==
    /\ pc[t] = "yield"
    /\ lock' = FALSE
    /\ inside' = [inside EXCEPT ![t] = FALSE]
    /\ pc' = [pc EXCEPT ![t] = "idle"]
    /\ call' = [call EXCEPT ![t] = NoCall]
    /\ ret' = [ret EXCEPT ![t] = PyNone]
    /\ UNCHANGED <<forgeVars, callVars, cache, completed>>

CacheInit == data = Doc(FullMetadata, NoSections) /\ Constructed

\* threads that call get, set and clear
CacheStep(t) == Acquire(t) \/ get(t) \/ set(t) \/ clear(t) \/ Release(t)
CacheNext == \E t \in Threads : (\E c \in CacheCalls : Call(t, c)) \/ CacheStep(t)
CacheSpec == CacheInit /\ [][CacheNext]_vars

\* every thread in the Cache keeps running, and the lock is granted fairly: a thread
\* that can acquire it again and again does acquire it
CacheFairSpec ==
    /\ CacheSpec
    /\ \A t \in Threads : WF_vars(get(t) \/ set(t) \/ clear(t) \/ Release(t))
    /\ \A t \in Threads : SF_vars(Acquire(t))

\* threads that also use get_lock, and call the Cache from inside its with-block
LockNext ==
    \E t \in Threads :
        \/ \E c \in CacheCalls : Call(t, c)
        \/ CacheStep(t)
        \/ \E key \in CacheKeys : get_lock(t, key)
        \/ \E c \in CacheCalls : CallInside(t, c)
        \/ ExitLock(t)
LockSpec == CacheInit /\ [][LockNext]_vars

(***************************************************************************)
(* Claims                                                                  *)
(***************************************************************************)
\* _create_specification (alone, or inside process_spec) built a Specification
Built == spec # NoSpec
Created == op = "_create_specification"
Processed == op = "process_spec"

\* the mandatory metadata fields the document lacks (all of them without 'metadata')
Missing(d) ==
    IF HasKey(d, "metadata") THEN MetadataFields \ Keys(Lookup(d, "metadata")) ELSE MetadataFields
CompleteMetadata(d) == d.t = "dict" /\ Missing(d) = {}
MissingFieldMessages(d) == {"Missing required field: " \o Quote(f) : f \in Missing(d)}

\* C1: a document whose metadata lacks name, version or description (or that has no
\* metadata) makes _create_specification raise ValidationError with a message naming
\* a missing field; it never returns a Specification for such a document.
C1_MissingMetadataRaises ==
    (Created /\ data \in MetadataDocs /\ Missing(data) # {})
        => /\ outcome = "raised"
           /\ exc.type = "ValidationError"
           /\ exc.msg \in MissingFieldMessages(data)

\* the default-valued instance of each section
DefaultSection(key) ==
    CASE key = "header_format" ->
           [border_line |-> EmptyStr, file_name_line |-> EmptyStr, description_line |-> EmptyStr,
            blank_comment |-> EmptyStr, assembly_lines |-> EmptyList, directives |-> EmptyList]
      [] key = "register_usage" -> [general_purpose |-> <<>>]
      [] key = "structures" -> <<>>
      [] key = "algorithms" -> <<>>
      [] key = "error_handling" ->
           [strategies |-> EmptyDict, error_types |-> <<>>, syscall_requirements |-> EmptyList]
      [] key = "section_requirements" -> [data |-> EmptyList, bss |-> <<>>, text |-> EmptyDict]
      [] key = "performance" ->
           [time_complexity |-> EmptyStr, space_complexity |-> EmptyStr,
            constraints |-> EmptyList, register_usage |-> EmptyList,
            memory_access |-> EmptyList, benchmarks |-> <<>>]
      [] key = "testing" ->
           [unit_tests |-> <<>>, integration_tests |-> <<>>, conformance_tests |-> <<>>]
      [] key = "code_style" ->
           [indentation |-> EmptyList, comments |-> EmptyList, naming |-> EmptyList,
            organization |-> EmptyList]

\* C2: with complete metadata and any subset of the nine other top-level keys absent
\* (the present ones well-formed), _create_specification returns, and each absent
\* section of the Specification is the default-valued instance of its entity.
C2_AbsentSectionsDefault ==
    (Created /\ CompleteMetadata(data))
        => /\ data \in SubsetDocs => outcome = "returned"
           /\ outcome = "returned" =>
                \A k \in KeySet : ~HasKey(data, k) => spec[k] = DefaultSection(k)

C2_Witness ==
    /\ Created /\ outcome = "returned" /\ CompleteMetadata(data)
    /\ ~HasKey(data, "header_format") /\ ~HasKey(data, "performance")
    /\ HasKey(data, "testing")
    /\ spec.header_format.border_line = EmptyStr
    /\ spec.performance.benchmarks = <<>>
    /\ Len(spec.testing.unit_tests) = 2

\* the kinds of item, the full item of each kind and the document it sits in
ItemKinds == {"register", "field", "bss", "benchmark", "error_type", "unit_test"}
FullItem(kind) ==
    CASE kind = "register" -> FullRegister
      [] kind = "field" -> FullField
      [] kind = "bss" -> FullBss
      [] kind = "benchmark" -> FullBenchmark
      [] kind = "error_type" -> FullErrorType
      [] kind = "unit_test" -> FullUnitTest
ItemDoc(kind, item) ==
    CASE kind = "register" -> InRegisters(<<item>>)
      [] kind = "field" -> InFields(<<item>>)
      [] kind = "bss" -> InBss(<<item>>)
      [] kind = "benchmark" -> InBenchmarks(<<item>>)
      [] kind = "error_type" -> InErrorTypes(<<item>>)
      [] kind = "unit_test" -> InUnitTests(<<item>>)
\* the typed entities of that kind in the Specification
TypedItems(s, kind) ==
    CASE kind = "register" -> s.register_usage.general_purpose
      [] kind = "field" -> s.structures[1][2].fields
      [] kind = "bss" -> s.section_requirements.bss
      [] kind = "benchmark" -> s.performance.benchmarks
      [] kind = "error_type" -> s.error_handling.error_types
      [] kind = "unit_test" -> s.testing.unit_tests

\* every field of the entity is an empty string, list or mapping where the item lacks it
EmptyDefault(v) == v \in {EmptyStr, EmptyList, EmptyDict}

Required(kind) ==
    CASE kind = "register" -> <<"name", "purpose">>
      [] kind = "field" -> <<"name", "type">>
      [] kind = "bss" -> <<"name", "size", "align", "purpose">>
      [] kind = "benchmark" -> <<"name", "input_size">>
      [] kind = "error_type" -> <<"name">>
      [] kind = "unit_test" -> <<"name">>
FirstMissing(kind, out) ==
    Required(kind)[CHOOSE i \in 1..Len(Required(kind)) :
                      /\ Required(kind)[i] \in out
                      /\ \A j \in 1..(i - 1) : Required(kind)[j] \notin out]
\* the default the code gives a field it reads with .get
FieldDefault(kind, f) ==
    CASE f \in {"constraints", "requirements", "validation"} -> EmptyList
      [] f \in {"byte_regs", "expected_time"} -> PyNone
      [] f \in {"input", "expected_output"} -> PyStr("TBD")
      [] f = "description" /\ kind = "field" -> EmptyStr
      [] f = "description" /\ kind = "error_type" -> PyStr("Handle e")
      [] f = "handling" -> PyList(<<PyStr("Detect"), PyStr("Log"), PyStr("Handle")>>)

C4_MisfitsAbsorbed ==
    (Created /\ CompleteMetadata(data) /\ data \in MisfitDocs) => outcome = "returned"

\* C5: on an otherwise well-formed document whose metadata lacks a mandatory field,
\* process_spec returns no report and raises ValidationError with a message that
\* contains the name of a missing field.
C5_ProcessSpecRaisesValidationError ==
    (Processed /\ data \in MetadataDocs /\ Missing(data) # {})
        => /\ outcome = "raised"
           /\ lines = <<>>
           /\ exc.type = "ValidationError"
           /\ \E f \in Missing(data) : \E prefix \in {"", "Missing required field: ",
                    "Failed to process specification: ",
                    "Failed to process specification: Missing required field: "} :
                  exc.msg \in {prefix \o f, prefix \o Quote(f)}

\* a section of the raw document, or the default the code reads it with
RawSection(d, key) == IF HasKey(d, key) THEN Lookup(d, key) ELSE EmptyDict
RawList(section, key) == IF HasKey(section, key) THEN Lookup(section, key) ELSE EmptyList

\* C6: error_handling.strategies normalizes to {"general": L} for a raw list L (order
\* kept), to M itself for a raw mapping M, and to the empty mapping for any other type
\* or an absent key; the result is always a mapping and no shape of it raises.
C6_StrategiesShape ==
    /\ (Created /\ data \in StrategyDocs) => outcome = "returned"
    /\ (Built /\ data.t = "dict") =>
          LET err_handling == RawSection(data, "error_handling")
              got == spec.error_handling.strategies
          IN  /\ got.t = "dict"
              /\ IF ~HasKey(err_handling, "strategies") THEN got = EmptyDict
                 ELSE LET raw == Lookup(err_handling, "strategies")
                      IN  CASE raw.t = "list" ->
                                 /\ Len(got.v) = 1
                                 /\ got.v[1][1] = "general"
                                 /\ got.v[1][2] = raw
                            [] raw.t = "dict" -> got = raw
                            [] OTHER -> got = EmptyDict

C6_Witness ==
    /\ Built
    /\ HasKey(data, "error_handling")
    /\ RawList(Lookup(data, "error_handling"), "strategies") = StrList(<<"y", "x">>)
    /\ spec.error_handling.strategies = One("general", StrList(<<"y", "x">>))

\* the typed entity the bare name n expands to
ExpandedErrorType(n) ==
    [name |-> PyStr(n),
     description |-> PyStr(CASE n = "e" -> "Handle e" [] n = "f" -> "Handle f"),
     handling |-> PyList(<<PyStr("Detect"), PyStr("Log"), PyStr("Handle")>>)]

\* C7: the bare error_types entry n, the mapping {name: n} and the expanded mapping
\* {name: n, description: "Handle n", handling: [Detect, Log, Handle]} all normalize
\* to the same ErrorType(n, "Handle n", [Detect, Log, Handle]).
C7_ExpansionIdempotent ==
    (Built /\ data.t = "dict" /\ RawList(RawSection(data, "error_handling"), "error_types").t = "list") =>
        LET raw == RawList(RawSection(data, "error_handling"), "error_types").v
            kept == SelectSeq(raw, LAMBDA e : e.t \in {"str", "dict"})
            typed == spec.error_handling.error_types
        IN  /\ Len(typed) = Len(kept)
            /\ \A i \in 1..Len(kept) : \A n \in {"e", "f"} :
                  kept[i] \in {PyStr(n), One("name", PyStr(n)), CanonicalErrorType(n)}
                      => typed[i] = ExpandedErrorType(n)

C7_Witness ==
    /\ Built
    /\ data = InErrorTypes(<<S("f"), CanonicalErrorType("f")>>)
    /\ spec.error_handling.error_types[1] = spec.error_handling.error_types[2]
    /\ spec.error_handling.error_types[1].description = PyStr("Handle f")

\* what a unit_tests entry that is a mapping with a name normalizes to
ExpectedTestCase(e) ==
    [name |-> Lookup(e, "name"),
     input |-> IF HasKey(e, "input") THEN Lookup(e, "input") ELSE PyStr("TBD"),
     expected_output |-> IF HasKey(e, "expected_output") THEN Lookup(e, "expected_output")
                         ELSE PyStr("TBD"),
     validation |-> IF HasKey(e, "validation") THEN Lookup(e, "validation") ELSE EmptyList]

\* C8: each entry of the three testing lists becomes one output entry at the same
\* position: a bare unit test s -> TestCase(s, "TBD", "TBD", []), a unit-test mapping
\* keeps its fields with "TBD" for a missing input/expected_output; a bare integration
\* test -> {name: s}, a bare conformance test -> {standard: s}; other entries of
\* those two lists pass through unchanged.
C8_TestingEntries ==
    (Built /\ data.t = "dict") =>
        LET test_data == RawSection(data, "testing")
            unit == RawList(test_data, "unit_tests")
            integration == RawList(test_data, "integration_tests")
            conformance == RawList(test_data, "conformance_tests")
        IN  /\ unit.t = "list" =>
                  /\ Len(spec.testing.unit_tests) = Len(unit.v)
                  /\ \A i \in 1..Len(unit.v) :
                        spec.testing.unit_tests[i] =
                            IF unit.v[i].t = "str"
                            THEN [name |-> unit.v[i], input |-> PyStr("TBD"),
                                  expected_output |-> PyStr("TBD"), validation |-> EmptyList]
                            ELSE ExpectedTestCase(unit.v[i])
            /\ integration.t = "list" =>
                  /\ Len(spec.testing.integration_tests) = Len(integration.v)
                  /\ \A i \in 1..Len(integration.v) :
                        spec.testing.integration_tests[i] =
                            IF integration.v[i].t = "str"
                            THEN PyDict(<< <<"name", integration.v[i]>> >>)
                            ELSE integration.v[i]
            /\ conformance.t = "list" =>
                  /\ Len(spec.testing.conformance_tests) = Len(conformance.v)
                  /\ \A i \in 1..Len(conformance.v) :
                        spec.testing.conformance_tests[i] =
                            IF conformance.v[i].t = "str"
                            THEN PyDict(<< <<"standard", conformance.v[i]>> >>)
                            ELSE conformance.v[i]

C8_Witness ==
    /\ Built
    /\ data = With("testing", Sample("testing"))
    /\ spec.testing.unit_tests[1].input = PyStr("TBD")
    /\ spec.testing.unit_tests[2].input = PyStr("x")
    /\ spec.testing.integration_tests[1] = One("name", S("i"))
    /\ spec.testing.conformance_tests[1] = One("standard", S("c"))
    /\ spec.testing.conformance_tests[2] = FullConformanceTest

\* process_spec returned a report: lines is the list it joined
Reported == Processed /\ outcome = "returned"

AlgorithmLabels == {"Algorithm: " \o n : n \in AlgorithmNames}
\* where the report's 'Algorithm: <name>' lines are, and the i-th of them
LabelAt == {k \in 1..Len(lines) : lines[k] \in AlgorithmLabels}
NthLabel(i) == CHOOSE k \in LabelAt : Cardinality({j \in LabelAt : j < k}) = i - 1
\* the first line past the i-th algorithm's block
BlockEnd(i) ==
    CHOOSE k \in 1..Len(lines) :
        /\ k > NthLabel(i)
        /\ lines[k] \in AlgorithmLabels \cup {"=== ERROR HANDLING ==="}
        /\ \A j \in (NthLabel(i) + 1)..(k - 1) :
              lines[j] \notin AlgorithmLabels \cup {"=== ERROR HANDLING ==="}

\* a steps mapping of the raw document whose values are lists of strings
StepsOf(algo) == IF algo.t = "dict" /\ HasKey(algo, "steps") THEN Lookup(algo, "steps") ELSE EmptyDict
IsStrList(x) == x.t = "list" /\ \A i \in 1..Len(x.v) : x.v[i].t = "str"
WellFormedSteps(steps) ==
    steps.t = "dict" /\ \A i \in 1..Len(steps.v) : IsStrList(steps.v[i][2])
\* the step labels and action lines, in the raw document's order
RECURSIVE StepBlock(_, _)
StepBlock(kvs, i) ==
    IF i > Len(kvs) THEN <<>>
    ELSE <<"  " \o kvs[i][1] \o ":">>
         \o [j \in 1..Len(kvs[i][2].v) |-> "    - " \o kvs[i][2].v[j].v]
         \o StepBlock(kvs, i + 1)
\* what may follow an algorithm's steps
AfterSteps == {"Edge Cases:", "Preconditions:", "Postconditions:", "Invariants:", ""}

\* C9: the report's 'Algorithm: <name>' lines are the raw document's algorithms in the
\* raw order, none missing or duplicated; in each algorithm's block, right after its
\* 'Steps:' line, come the step labels in the raw order, each followed by its own
\* actions in list order, and then no further step or action line.
C9_OrderPreserved ==
    Reported =>
        LET raw == RawSection(data, "algorithms").v
        IN  /\ SelectSeq(lines, LAMBDA l : l \in AlgorithmLabels)
                  = [i \in 1..Len(raw) |-> "Algorithm: " \o raw[i][1]]
            /\ \A i \in 1..Len(raw) :
                  WellFormedSteps(StepsOf(raw[i][2])) =>
                      LET block == StepBlock(StepsOf(raw[i][2]).v, 1)
                          at == {k \in (NthLabel(i) + 1)..(BlockEnd(i) - 1) : lines[k] = "Steps:"}
                      IN  /\ Cardinality(at) = 1
                          /\ \A p \in at :
                                /\ SubSeq(lines, p + 1, p + Len(block)) = block
                                /\ lines[p + Len(block) + 1] \in AfterSteps

C9_Witness ==
    /\ Reported
    /\ data = InAlgorithms(<< <<"B", FullAlgorithm>>,
                              <<"A", One("steps", PyDict(<< <<"u", StrList(<<"y", "x">>)>>,
                                                            <<"s", EmptyList>> >>))>> >>)
    /\ SelectSeq(lines, LAMBDA l : l \in AlgorithmLabels) = <<"Algorithm: B", "Algorithm: A">>
    /\ \E p \in 1..Len(lines) :
          SubSeq(lines, p, p + 4) = <<"Steps:", "  u:", "    - y", "    - x", "  s:">>

Headers ==
    << "=== SPECIFICATION ===", "=== HEADER FORMAT ===", "=== REGISTER USAGE ===",
       "=== DATA STRUCTURES ===", "=== ALGORITHMS ===", "=== ERROR HANDLING ===",
       "=== SECTION REQUIREMENTS ===", "=== PERFORMANCE ===", "=== TESTING ===",
       "=== CODE STYLE ===" >>
HeaderSet == {Headers[i] : i \in 1..Len(Headers)}

\* C10: every report has each of the ten top-level section headers exactly once, in
\* the fixed order, whether or not the section has content; and every document with
\* complete metadata and well-formed sections (any of them absent) gets a report.
C10_HeadersOnceInOrder ==
    /\ (Processed /\ data \in SubsetDocs) => outcome = "returned"
    /\ Reported => SelectSeq(lines, LAMBDA l : l \in HeaderSet) = Headers

C10_Witness ==
    /\ Reported
    /\ data = Doc(FullMetadata, NoSections)
    /\ lines[1] = "=== SPECIFICATION ==="
    /\ \E k \in 1..(Len(lines) - 1) :
          lines[k] = "=== REGISTER USAGE ===" /\ lines[k + 1] = "=== DATA STRUCTURES ==="

\* the lines of the i-th section: from past its header up to the next header (or the end)
HeaderPos(i) == CHOOSE k \in 1..Len(lines) : lines[k] = Headers[i]
Segment(i) ==
    SubSeq(lines, HeaderPos(i) + 1, IF i < Len(Headers) THEN HeaderPos(i + 1) - 1 ELSE Len(lines))

\* a document that supplies metadata (complete) and structures, and nothing else
OnlyStructures(d) == CompleteMetadata(d) /\ Keys(d) = {"metadata", "structures"}
\* the sections such a document leaves empty
EmptySections == {i \in 1..Len(Headers) :
                     Headers[i] \notin {"=== SPECIFICATION ===", "=== DATA STRUCTURES ==="}}

\* how many elements of the sequence xs satisfy P, and how often l is a line of Segment(i)
Count(xs, P(_)) == Cardinality({k \in 1..Len(xs) : P(xs[k])})
Occurrences(i, l) == Count(Segment(i), LAMBDA x : x = l)
\* the entities of the typed model that carry a list-valued sub-field
Entities(kvs) == [k \in 1..Len(kvs) |-> kvs[k][2]]

\* C11 (as claimed): in a report, an empty list-valued sub-field emits no sub-label
\* line; and in the report of a document that supplies only metadata and structures,
\* every section other than SPECIFICATION and DATA STRUCTURES is its header followed
\* by no labeled line (nothing but the blank separator) before the next header.
C11_EmptySectionsHeaderOnly ==
    (Reported /\ OnlyStructures(data)) =>
        \A i \in EmptySections : \A k \in 1..Len(Segment(i)) : Segment(i)[k] = ""

\* what the renderer appends after the header of a section whose collections are empty
EmptyBody(i) ==
    CASE Headers[i] = "=== HEADER FORMAT ===" ->
           <<"Border Line: ", "Assembly Lines:", "Directives:", "">>
      [] Headers[i] = "=== ERROR HANDLING ===" ->
           <<"Strategies:", "Error Types:", "Syscall Requirements:", "">>
      [] Headers[i] = "=== SECTION REQUIREMENTS ===" ->
           <<"Data Section:", "BSS Section:", "Text Section:", "">>
      [] Headers[i] = "=== PERFORMANCE ===" ->
           <<"Time Complexity: ", "Space Complexity: ", "Constraints:", "Register Usage:",
             "Memory Access:", "Benchmarks:", "">>
      [] Headers[i] = "=== TESTING ===" ->
           <<"Unit Tests:", "Integration Tests:", "Conformance Tests:", "">>
      [] Headers[i] = "=== CODE STYLE ===" ->
           <<"Indentation:", "Comments:", "Naming:", "Organization:">>
      [] OTHER -> <<>>

\* C11 (amended): in the report of a document that supplies only metadata and
\* structures, every section other than SPECIFICATION and DATA STRUCTURES is its header
\* followed by the section's fixed labels only, each with nothing under it (REGISTER
\* USAGE and ALGORITHMS by nothing at all); and in every report a conditional sub-label
\* (Constraints, Edge Cases, Preconditions, Postconditions, Invariants, Requirements,
\* Validation) appears once per entity whose sub-field is non-empty, so never for an
\* empty one.
C11_EmptySectionsFixedLabels ==
    /\ (Reported /\ OnlyStructures(data)) => \A i \in EmptySections : Segment(i) = EmptyBody(i)
    /\ Reported =>
          /\ Occurrences(3, "Constraints:")
                = Count(spec.register_usage.general_purpose, LAMBDA e : Truthy(e.constraints))
          /\ Occurrences(4, "Constraints:")
                = Count(Entities(spec.structures), LAMBDA e : Truthy(e.constraints))
          /\ Occurrences(5, "Edge Cases:")
                = Count(Entities(spec.algorithms), LAMBDA e : Truthy(e.edge_cases))
          /\ Occurrences(5, "Preconditions:")
                = Count(Entities(spec.algorithms), LAMBDA e : Truthy(e.preconditions))
          /\ Occurrences(5, "Postconditions:")
                = Count(Entities(spec.algorithms), LAMBDA e : Truthy(e.postconditions))
          /\ Occurrences(5, "Invariants:")
                = Count(Entities(spec.algorithms), LAMBDA e : Truthy(e.invariants))
          /\ Occurrences(8, "    Requirements:")
                = Count(spec.performance.benchmarks, LAMBDA e : Truthy(e.requirements))
          /\ Occurrences(9, "    Validation:")
                = Count(spec.testing.unit_tests, LAMBDA e : Truthy(e.validation))

\* the spec's example: one structure with one field and no constraints, nothing else
C11_Witness ==
    /\ Reported
    /\ data = InFields(<<Without(FullField, {"constraints"})>>)
    /\ Segment(4) = <<"Structure: S", "Documentation: ", "Fields:", "  n (t): d", "">>
    /\ Segment(2) = <<"Border Line: ", "Assembly Lines:", "Directives:", "">>
    /\ Segment(3) = <<>>
    /\ Occurrences(4, "Constraints:") = 0

\* the typed models that are the model s with one populated field emptied: a field the
\* report shows cannot be emptied without the report changing
StructureAt(s, i) == s.structures[i][2]
AlgorithmAt(s, i) == s.algorithms[i][2]
RecordKeys(test) == IF test.t = "dict" THEN Keys(test) ELSE {}
WithoutField(s) ==
    {[s EXCEPT !.header_format[f] = EmptyStr] :
        f \in {f \in {"border_line", "file_name_line", "description_line", "blank_comment"} :
                  Truthy(s.header_format[f])}}
    \cup {[s EXCEPT !.header_format[f] = EmptyList] :
            f \in {f \in {"assembly_lines", "directives"} : Truthy(s.header_format[f])}}
    \cup UNION {{[s EXCEPT !.structures[i][2].fields[j].constraints = EmptyList] :
                    j \in {j \in 1..Len(StructureAt(s, i).fields) :
                              Truthy(StructureAt(s, i).fields[j].constraints)}} :
                i \in 1..Len(s.structures)}
    \cup UNION {{[s EXCEPT !.structures[i][2][f] = EmptyList] :
                    f \in {f \in {"constraints", "examples"} : Truthy(StructureAt(s, i)[f])}} :
                i \in 1..Len(s.structures)}
    \cup {[s EXCEPT !.structures[i][2].complexity = EmptyDict] :
            i \in {i \in 1..Len(s.structures) : Truthy(StructureAt(s, i).complexity)}}
    \cup UNION {{[s EXCEPT !.algorithms[i][2][f] = EmptyList] :
                    f \in {f \in {"edge_cases", "preconditions", "postconditions",
                                  "invariants", "examples"} : Truthy(AlgorithmAt(s, i)[f])}} :
                i \in 1..Len(s.algorithms)}
    \cup {[s EXCEPT !.algorithms[i][2].complexity = EmptyDict] :
            i \in {i \in 1..Len(s.algorithms) : Truthy(AlgorithmAt(s, i).complexity)}}
    \cup UNION {{[s EXCEPT !.testing.integration_tests[i] = Without(@, {k})] :
                    k \in RecordKeys(s.testing.integration_tests[i]) \ {"name"}} :
                i \in 1..Len(s.testing.integration_tests)}
    \cup UNION {{[s EXCEPT !.testing.conformance_tests[i] = Without(@, {k})] :
                    k \in RecordKeys(s.testing.conformance_tests[i]) \ {"standard"}} :
                i \in 1..Len(s.testing.conformance_tests)}

\* C12: the renderer never drops a populated field: each non-empty field of the typed
\* model (HeaderFormat.file_name_line, description_line and blank_comment,
\* Field.constraints, DataStructure.examples and complexity, Algorithm.complexity and
\* examples, every key of an integration or conformance test record, and the fields
\* listed beside them) appears in the report, so the same model with that one field
\* emptied never renders to the same report.
C12_NoPopulatedFieldDropped ==
    Reported => \A s \in WithoutField(spec) : format_text(s) # Ok(lines)

\* the outcome of the process_spec call just made: what it returned or raised
Outcome == [ok |-> outcome = "returned", val |-> IF outcome = "returned" THEN lines ELSE PyNone,
            exc |-> exc]

\* C13: process_spec gives the same outcome (the same report, or the same error) on the
\* instance built with cache_enabled=True and on the one built with cache_enabled=False,
\* for every output_format, whatever the cache holds, and every repetition gives that
\* outcome again; no process_spec call changes the contents of the cache.
C13_CacheNotPartOfOutcome ==
    /\ [](calls # <<>> => Outcome = first)
    /\ [][Len(calls') > Len(calls) => cache' = cache]_vars

\* both instances called on a document that renders, with an entry in the cache
C13_Witness ==
    /\ calls = << <<TRUE, "text">>, <<FALSE, "json">> >>
    /\ data = With("algorithms", Sample("algorithms"))
    /\ cache["a"] = PyStr("v")
    /\ outcome = "returned"
    /\ lines[1] = "=== SPECIFICATION ==="

\* the threads that hold the lock: between acquire and release
InCritical == {t \in Threads : pc[t] \in {"body", "release", "yield"}}
MutualExclusion == Cardinality(InCritical) <= 1
\* a get that has read returns what the completed set and clear calls left under its key
GetReturnsLast ==
    \A t \in Threads : At(t, "release", "get") => ret[t] = dict_get(completed, call[t].key)

\* C14: under any interleaving of threads calling get, set and clear on one Cache, at
\* most one thread is inside a critical section at a time; every get(k) returns the
\* value of the most recent set(k, v) that completed before it with no clear in
\* between, or None if there is none; and, the lock being granted fairly, every call
\* eventually returns.
C14_CacheOperationsAtomic ==
    /\ [](MutualExclusion /\ GetReturnsLast)
    /\ \A t \in Threads : (pc[t] # "idle") ~> (pc[t] = "idle")

\* a get about to return the value another thread's set left, that thread waiting to clear
C14_Witness ==
    \E t, u \in Threads :
        /\ t # u
        /\ At(t, "release", "get")
        /\ ret[t] = PyStr("v")
        /\ completed[call[t].key] = PyStr("v")
        /\ At(u, "acquire", "clear")
        /\ lock

\* the algorithms of the raw document whose 'steps' is a flat list
ListSteps(d) ==
    IF CompleteMetadata(d) /\ RawSection(d, "algorithms").t = "dict"
    THEN {i \in 1..Len(RawSection(d, "algorithms").v) :
             StepsOf(RawSection(d, "algorithms").v[i][2]).t = "list"}
    ELSE {}

\* C15: for a document with complete metadata in which some algorithm's 'steps' is a
\* flat list, normalization succeeds and Algorithm.steps is that same list, not a
\* mapping; process_spec on it builds the Specification and then raises SpecForgeError
\* from the renderer instead of returning a report, also when the list is empty.
C15_ListStepsNotReconciled ==
    ListSteps(data) # {} =>
        /\ (Created \/ Processed) =>
              /\ Built
              /\ \A i \in ListSteps(data) :
                    /\ spec.algorithms[i][1] = RawSection(data, "algorithms").v[i][1]
                    /\ spec.algorithms[i][2].steps
                          = StepsOf(RawSection(data, "algorithms").v[i][2])
        /\ Created => outcome = "returned"
        /\ Processed =>
              /\ outcome = "raised"
              /\ exc = [type |-> "SpecForgeError",
                        msg |-> "Failed to process specification: "
                                \o "'list' object has no attribute 'items'"]

\* steps: [] in an otherwise complete algorithm
C15_Witness ==
    /\ Processed
    /\ data = InAlgorithms(<< <<"A", Put(FullAlgorithm, "steps", EmptyList)>> >>)
    /\ spec.algorithms[1][2].steps = EmptyList
    /\ outcome = "raised"
    /\ exc.type = "SpecForgeError"


\* thread t, inside its own get_lock with-block, has called get, set or clear and waits
\* for the lock
BlockedInside(t) == inside[t] /\ pc[t] = "acquire"

====
